---- MODULE Spec2Model ----
(***************************************************************************)
(* Blog backend (users, posts, comments) of src/main.py: the relational    *)
(* store, the bearer tokens, and the life of a request: dependencies are   *)
(* resolved (get_session, get_current_user), the handler body runs, and    *)
(* the session is released when the request completes.                     *)
(***************************************************************************)
EXTENDS Integers, Sequences, FiniteSets, TLC

\* ------------------------------------------------------------------ bounds
NumProcs == 2
MaxTime == 2
MaxPosts == 1
MaxComments == 1

\* ----------------------------------------------------------------- domains
Procs == 1..NumProcs
Emails == {"a@x.com", "b@x.com"}
Passwords == {"pw1", "pw2"}
Titles == {"t1", "t2"}
Contents == {"c1", "c2"}
Bodies == {"b1", "b2"}

VARIABLES users, posts, comments, now, issued, session, pc, req, resp

vars == <<users, posts, comments, now, issued, session, pc, req, resp>>

\* ------------------------------------------------------- passwords, tokens
\* auth.py is not among the sources: these four follow spec.md 4.1 and 4.2.
TokenTTL == 1

get_password_hash(p) == [alg |-> "slowhash", of |-> p]

verify_password(p, h) == h = get_password_hash(p)

create_access_token(email) == [sub |-> email, exp |-> now + TokenTTL, sig |-> "ok"]

NoToken == [sub |-> "", exp |-> 0, sig |-> "none"]
ForgedToken == [sub |-> "a@x.com", exp |-> MaxTime + TokenTTL, sig |-> "bad"]

\* select(User).where(User.email == e).first(): the user's id, 0 for None
UserByEmail(e) ==
    IF \E i \in 1..Len(users) : users[i].email = e
    THEN CHOOSE i \in 1..Len(users) : users[i].email = e
    ELSE 0

get_current_user(tok) ==
    IF tok.sig = "none" THEN [ok |-> FALSE, uid |-> 0, err |-> "Not authenticated"]
    ELSE IF tok.sig # "ok" THEN [ok |-> FALSE, uid |-> 0, err |-> "InvalidToken"]
    ELSE IF now > tok.exp THEN [ok |-> FALSE, uid |-> 0, err |-> "ExpiredToken"]
    ELSE IF UserByEmail(tok.sub) = 0 THEN [ok |-> FALSE, uid |-> 0, err |-> "Unauthorized"]
    ELSE [ok |-> TRUE, uid |-> UserByEmail(tok.sub), err |-> ""]

\* The tokens a client can present: none, a forged one, or one login issued.
Presentable == {NoToken, ForgedToken} \cup {i.tok : i \in issued}

\* ------------------------------------------------------ requests, responses
Protected == {"me", "create_post", "update_post", "delete_post",
              "create_comment", "update_comment", "delete_comment"}

\* A field the client left out of a JSON body is Absent (AbsentInt for an
\* integer field); a field of the wrong JSON type is IllTyped.
Absent == "<absent>"
IllTyped == "<not a string>"
AbsentInt == -1

\* caller is the id get_current_user resolved; claimed is the owner_id of the
\* parsed body.
NoReq == [kind |-> "none", tok |-> NoToken, caller |-> 0, id |-> 0,
          email |-> "", password |-> "", claimed |-> AbsentInt]

Resp(status, detail) == [status |-> status, detail |-> detail, uid |-> 0, tok |-> NoToken]

NoResp == Resp(0, "")

DuplicateEmail == Resp(400, "Email already registered")
InvalidCredentials == Resp(400, "Incorrect username or password")
InternalServerError == Resp(500, "Internal Server Error")

Reply(w, r) ==
    /\ resp' = [resp EXCEPT ![w] = r]
    /\ pc' = [pc EXCEPT ![w] = "exit"]

AllIdle == \A v \in Procs : pc[v] = "idle"

\* One request at a time, taken by the first worker.
Serial(w) == AllIdle /\ \A v \in Procs : w <= v

\* ------------------------------------------------------------------ session
\* with Session(engine) as session: yield session
get_session_acquire(w) == session' = [session EXCEPT ![w] = "open"]

get_session_leaky(w) ==
    session' = [session EXCEPT ![w] = IF resp[w].status >= 400 THEN "open" ELSE "closed"]

get_session_release(w) == session' = [session EXCEPT ![w] = "closed"]

\* ------------------------------------------------------------ initial state
Init ==
    /\ users = << >>
    /\ posts = << >>
    /\ comments = << >>
    /\ now = 0
    /\ issued = {}
    /\ session = [w \in Procs |-> "none"]
    /\ pc = [w \in Procs |-> "idle"]
    /\ req = [w \in Procs |-> NoReq]
    /\ resp = [w \in Procs |-> NoResp]

\* ------------------------------------------------------- request life cycle
\* A request arrives at an idle worker: the route's dependencies are solved
\* (the session is opened, the caller is resolved on protected routes) before
\* the handler body runs.
Accept(w, r) ==
    /\ pc[w] = "idle"
    /\ get_session_acquire(w)
    /\ LET cu == get_current_user(r.tok) IN
       IF r.kind \in Protected /\ ~cu.ok
       THEN /\ req' = [req EXCEPT ![w] = r]
            /\ resp' = [resp EXCEPT ![w] = Resp(401, cu.err)]
            /\ pc' = [pc EXCEPT ![w] = "exit"]
       ELSE /\ req' = [req EXCEPT ![w] =
                         [r EXCEPT !.caller = IF r.kind \in Protected THEN cu.uid ELSE 0]]
            /\ resp' = [resp EXCEPT ![w] = NoResp]
            /\ pc' = [pc EXCEPT ![w] = "handler"]
    /\ UNCHANGED <<users, posts, comments, now, issued>>

\* The response has been sent: the session's context manager exits.
Finish(w) ==
    /\ pc[w] = "exit"
    /\ get_session_release(w)
    /\ pc' = [pc EXCEPT ![w] = "idle"]
    /\ req' = [req EXCEPT ![w] = NoReq]
    /\ resp' = [resp EXCEPT ![w] = NoResp]
    /\ UNCHANGED <<users, posts, comments, now, issued>>

Tick ==
    /\ now < MaxTime
    /\ now' = now + 1
    /\ UNCHANGED <<users, posts, comments, issued, session, pc, req, resp>>

\* --------------------------------------------------------- register, login
\* register_user up to session.add: the existence check.
register_user_unchecked(w) ==
    /\ pc[w] = "handler" /\ req[w].kind = "register"
    /\ pc' = [pc EXCEPT ![w] = "commit"]
    /\ UNCHANGED <<users, posts, comments, now, issued, session, req, resp>>

register_user(w) ==
    /\ pc[w] = "handler" /\ req[w].kind = "register"
    /\ IF UserByEmail(req[w].email) # 0
       THEN Reply(w, DuplicateEmail)
       ELSE /\ pc' = [pc EXCEPT ![w] = "commit"]
            /\ UNCHANGED resp
    /\ UNCHANGED <<users, posts, comments, now, issued, session, req>>

\* session.commit() of register_user: User.email is unique=True, so the INSERT
\* of an email another request has committed meanwhile raises IntegrityError,
\* which register_user does not catch.
register_commit(w) ==
    /\ pc[w] = "commit" /\ req[w].kind = "register"
    /\ IF UserByEmail(req[w].email) # 0
       THEN /\ Reply(w, InternalServerError)
            /\ UNCHANGED users
       ELSE /\ users' = Append(users, [email |-> req[w].email,
                                       password_hash |-> get_password_hash(req[w].password)])
            /\ Reply(w, [Resp(200, "OK") EXCEPT !.uid = Len(users) + 1])
    /\ UNCHANGED <<posts, comments, now, issued, session, req>>

login_no_verify(w) ==
    /\ pc[w] = "handler" /\ req[w].kind = "login"
    /\ LET u == UserByEmail(req[w].email) IN
       IF u = 0
       THEN /\ Reply(w, InvalidCredentials)
            /\ UNCHANGED issued
       ELSE LET t == create_access_token(users[u].email) IN
            /\ issued' = issued \cup {[tok |-> t, uid |-> u]}
            /\ Reply(w, [Resp(200, "OK") EXCEPT !.tok = t])
    /\ UNCHANGED <<users, posts, comments, now, session, req>>

login_wrong_subject(w) ==
    /\ pc[w] = "handler" /\ req[w].kind = "login"
    /\ LET u == UserByEmail(req[w].email) IN
       IF u = 0 \/ ~verify_password(req[w].password, users[u].password_hash)
       THEN /\ Reply(w, InvalidCredentials)
            /\ UNCHANGED issued
       ELSE LET t == create_access_token(users[1].email) IN
            /\ issued' = issued \cup {[tok |-> t, uid |-> u]}
            /\ Reply(w, [Resp(200, "OK") EXCEPT !.tok = t])
    /\ UNCHANGED <<users, posts, comments, now, session, req>>

login_for_access_token(w) ==
    /\ pc[w] = "handler" /\ req[w].kind = "login"
    /\ LET u == UserByEmail(req[w].email) IN
       IF u = 0 \/ ~verify_password(req[w].password, users[u].password_hash)
       THEN /\ Reply(w, InvalidCredentials)
            /\ UNCHANGED issued
       ELSE LET t == create_access_token(users[u].email) IN
            /\ issued' = issued \cup {[tok |-> t, uid |-> u]}
            /\ Reply(w, [Resp(200, "OK") EXCEPT !.tok = t])
    /\ UNCHANGED <<users, posts, comments, now, session, req>>

read_users_me(w) ==
    /\ pc[w] = "handler" /\ req[w].kind = "me"
    /\ Reply(w, [Resp(200, "OK") EXCEPT !.uid = req[w].caller])
    /\ UNCHANGED <<users, posts, comments, now, issued, session, req>>

\* ------------------------------------------------------ request schemas
\* A JSON body is a record of its fields, each a value of its type, Absent
\* (AbsentInt for an integer field) or IllTyped.
UserIds == {1, 2}

PostBodies ==
    [title : Titles \cup {Absent, IllTyped},
     content : Contents \cup {Absent},
     owner_id : UserIds \cup {AbsentInt}]

CommentBodies ==
    [body : Bodies \cup {Absent, IllTyped},
     owner_id : UserIds \cup {AbsentInt}]

\* class PostCreate(PostBase): title: str, content: str, owner_id: int
PostCreate(b) ==
    /\ b.title \notin {Absent, IllTyped}
    /\ b.content \notin {Absent, IllTyped}
    /\ b.owner_id # AbsentInt

\* class CommentCreate(CommentBase): body: str, owner_id: int
CommentCreate(b) ==
    /\ b.body \notin {Absent, IllTyped}
    /\ b.owner_id # AbsentInt

UnprocessableEntity == Resp(422, "Unprocessable Entity")

\* model_dump(exclude_unset=True) followed by sqlmodel_update: a field that
\* is set in the body overwrites the stored one.
Dumped(new, old) == IF new = Absent THEN old ELSE new

\* ------------------------------------------------------------------- store
PostIds == 1..MaxPosts
CommentIds == 1..MaxComments

Insert(table, id, row) ==
    [i \in DOMAIN table \cup {id} |-> IF i = id THEN row ELSE table[i]]

Delete(table, id) == [i \in DOMAIN table \ {id} |-> table[i]]

HasComments(post_id) == \E c \in DOMAIN comments : comments[c].post_id = post_id

Noted(w, b) == req' = [req EXCEPT ![w].claimed = b.owner_id]

\* ------------------------------------------------------------------- posts
\* The store assigns a primary key that is not in use. creator records the
\* caller of the request and is never read by a handler.
create_post(w, b) ==
    /\ pc[w] = "handler" /\ req[w].kind = "create_post"
    /\ Noted(w, b)
    /\ IF ~PostCreate(b)
       THEN /\ Reply(w, UnprocessableEntity)
            /\ UNCHANGED posts
       ELSE \E id \in PostIds \ DOMAIN posts :
            /\ posts' = Insert(posts, id, [title |-> b.title, content |-> b.content,
                                           owner_id |-> req[w].caller,
                                           creator |-> req[w].caller])
            /\ Reply(w, [Resp(200, "OK") EXCEPT !.uid = req[w].caller])
    /\ UNCHANGED <<users, comments, now, issued, session>>

update_post_no_owner_check(w, b) ==
    /\ pc[w] = "handler" /\ req[w].kind = "update_post"
    /\ Noted(w, b)
    /\ IF ~PostCreate(b)
       THEN /\ Reply(w, UnprocessableEntity)
            /\ UNCHANGED posts
       ELSE IF req[w].id \notin DOMAIN posts
       THEN /\ Reply(w, Resp(404, "Post not found"))
            /\ UNCHANGED posts
       ELSE /\ posts' = [posts EXCEPT ![req[w].id] =
                           [title |-> Dumped(b.title, @.title),
                            content |-> Dumped(b.content, @.content),
                            owner_id |-> req[w].caller,
                            creator |-> @.creator]]
            /\ Reply(w, [Resp(200, "OK") EXCEPT !.uid = req[w].caller])
    /\ UNCHANGED <<users, comments, now, issued, session>>

update_post_owner_from_body(w, b) ==
    /\ pc[w] = "handler" /\ req[w].kind = "update_post"
    /\ Noted(w, b)
    /\ IF ~PostCreate(b)
       THEN /\ Reply(w, UnprocessableEntity)
            /\ UNCHANGED posts
       ELSE IF req[w].id \notin DOMAIN posts
       THEN /\ Reply(w, Resp(404, "Post not found"))
            /\ UNCHANGED posts
       ELSE IF posts[req[w].id].owner_id # req[w].caller
       THEN /\ Reply(w, Resp(403, "Not authorized to update this post"))
            /\ UNCHANGED posts
       ELSE /\ posts' = [posts EXCEPT ![req[w].id] =
                           [title |-> Dumped(b.title, @.title),
                            content |-> Dumped(b.content, @.content),
                            owner_id |-> b.owner_id,
                            creator |-> @.creator]]
            /\ Reply(w, [Resp(200, "OK") EXCEPT !.uid = b.owner_id])
    /\ UNCHANGED <<users, comments, now, issued, session>>

update_post_owner_before_lookup(w, b) ==
    /\ pc[w] = "handler" /\ req[w].kind = "update_post"
    /\ Noted(w, b)
    /\ IF ~PostCreate(b)
       THEN /\ Reply(w, UnprocessableEntity)
            /\ UNCHANGED posts
       ELSE IF req[w].id \notin DOMAIN posts
               \/ posts[req[w].id].owner_id # req[w].caller
       THEN /\ Reply(w, Resp(403, "Not authorized to update this post"))
            /\ UNCHANGED posts
       ELSE /\ posts' = [posts EXCEPT ![req[w].id] =
                           [title |-> Dumped(b.title, @.title),
                            content |-> Dumped(b.content, @.content),
                            owner_id |-> req[w].caller,
                            creator |-> @.creator]]
            /\ Reply(w, [Resp(200, "OK") EXCEPT !.uid = req[w].caller])
    /\ UNCHANGED <<users, comments, now, issued, session>>

\* post_update: PostCreate is validated before the handler body runs.
update_post(w, b) ==
    /\ pc[w] = "handler" /\ req[w].kind = "update_post"
    /\ Noted(w, b)
    /\ IF ~PostCreate(b)
       THEN /\ Reply(w, UnprocessableEntity)
            /\ UNCHANGED posts
       ELSE IF req[w].id \notin DOMAIN posts
       THEN /\ Reply(w, Resp(404, "Post not found"))
            /\ UNCHANGED posts
       ELSE IF posts[req[w].id].owner_id # req[w].caller
       THEN /\ Reply(w, Resp(403, "Not authorized to update this post"))
            /\ UNCHANGED posts
       ELSE /\ posts' = [posts EXCEPT ![req[w].id] =
                           [title |-> Dumped(b.title, @.title),
                            content |-> Dumped(b.content, @.content),
                            owner_id |-> req[w].caller,
                            creator |-> @.creator]]
            /\ Reply(w, [Resp(200, "OK") EXCEPT !.uid = req[w].caller])
    /\ UNCHANGED <<users, comments, now, issued, session>>

delete_post_unconstrained(w) ==
    /\ pc[w] = "handler" /\ req[w].kind = "delete_post"
    /\ IF req[w].id \notin DOMAIN posts
       THEN /\ Reply(w, Resp(404, "Post not found"))
            /\ UNCHANGED posts
       ELSE IF posts[req[w].id].owner_id # req[w].caller
       THEN /\ Reply(w, Resp(403, "Not authorized to delete this post"))
            /\ UNCHANGED posts
       ELSE /\ posts' = Delete(posts, req[w].id)
            /\ Reply(w, Resp(200, "Post deleted successfully"))
    /\ UNCHANGED <<users, comments, now, issued, session, req>>

\* Post.comments has no delete cascade and Comment.post_id is a required
\* column: deleting a Post that has Comments makes the unit of work blank
\* their post_id, which the NOT NULL column refuses at commit
\* (IntegrityError, not caught by delete_post).
delete_post(w) ==
    /\ pc[w] = "handler" /\ req[w].kind = "delete_post"
    /\ IF req[w].id \notin DOMAIN posts
       THEN /\ Reply(w, Resp(404, "Post not found"))
            /\ UNCHANGED posts
       ELSE IF posts[req[w].id].owner_id # req[w].caller
       THEN /\ Reply(w, Resp(403, "Not authorized to delete this post"))
            /\ UNCHANGED posts
       ELSE IF HasComments(req[w].id)
       THEN /\ Reply(w, InternalServerError)
            /\ UNCHANGED posts
       ELSE /\ posts' = Delete(posts, req[w].id)
            /\ Reply(w, Resp(200, "Post deleted successfully"))
    /\ UNCHANGED <<users, comments, now, issued, session, req>>

\* ---------------------------------------------------------------- comments
\* req[w].id is the post_id of the path.
create_comment(w, b) ==
    /\ pc[w] = "handler" /\ req[w].kind = "create_comment"
    /\ Noted(w, b)
    /\ IF ~CommentCreate(b)
       THEN /\ Reply(w, UnprocessableEntity)
            /\ UNCHANGED comments
       ELSE IF req[w].id \notin DOMAIN posts
       THEN /\ Reply(w, Resp(404, "Post not found"))
            /\ UNCHANGED comments
       ELSE \E id \in CommentIds \ DOMAIN comments :
            /\ comments' = Insert(comments, id, [body |-> b.body,
                                                 owner_id |-> req[w].caller,
                                                 post_id |-> req[w].id])
            /\ Reply(w, [Resp(200, "OK") EXCEPT !.uid = req[w].caller])
    /\ UNCHANGED <<users, posts, now, issued, session>>

update_comment(w, b) ==
    /\ pc[w] = "handler" /\ req[w].kind = "update_comment"
    /\ Noted(w, b)
    /\ IF ~CommentCreate(b)
       THEN /\ Reply(w, UnprocessableEntity)
            /\ UNCHANGED comments
       ELSE IF req[w].id \notin DOMAIN comments
       THEN /\ Reply(w, Resp(404, "Comment not found"))
            /\ UNCHANGED comments
       ELSE IF comments[req[w].id].owner_id # req[w].caller
       THEN /\ Reply(w, Resp(403, "Not authorized to update this comment"))
            /\ UNCHANGED comments
       ELSE /\ comments' = [comments EXCEPT ![req[w].id] =
                              [body |-> Dumped(b.body, @.body),
                               owner_id |-> req[w].caller,
                               post_id |-> @.post_id]]
            /\ Reply(w, [Resp(200, "OK") EXCEPT !.uid = req[w].caller])
    /\ UNCHANGED <<users, posts, now, issued, session>>

delete_comment(w) ==
    /\ pc[w] = "handler" /\ req[w].kind = "delete_comment"
    /\ IF req[w].id \notin DOMAIN comments
       THEN /\ Reply(w, Resp(404, "Comment not found"))
            /\ UNCHANGED comments
       ELSE IF comments[req[w].id].owner_id # req[w].caller
       THEN /\ Reply(w, Resp(403, "Not authorized to delete this comment"))
            /\ UNCHANGED comments
       ELSE /\ comments' = Delete(comments, req[w].id)
            /\ Reply(w, Resp(200, "Comment deleted successfully"))
    /\ UNCHANGED <<users, posts, now, issued, session, req>>

\* ---------------------------------------------------------- specifications
RegisterRequests ==
    {[NoReq EXCEPT !.kind = "register", !.email = e, !.password = p] :
        e \in Emails, p \in Passwords}

LoginRequests ==
    {[NoReq EXCEPT !.kind = "login", !.email = e, !.password = p] :
        e \in Emails, p \in Passwords}

MeRequests == {[NoReq EXCEPT !.kind = "me", !.tok = t] : t \in Presentable}

\* Concurrent registration: any worker may take a request at any time.
NextReg ==
    \E w \in Procs :
        \/ \E r \in RegisterRequests : Accept(w, r)
        \/ register_user(w)
        \/ register_commit(w)
        \/ Finish(w)

SpecReg == Init /\ [][NextReg]_vars

\* Registration, login and /me, one request at a time, with the clock running.
NextAuth ==
    \/ Tick
    \/ \E w \in Procs :
        \/ Serial(w) /\ \E r \in RegisterRequests \cup LoginRequests \cup MeRequests :
                          Accept(w, r)
        \/ register_user(w)
        \/ register_commit(w)
        \/ login_for_access_token(w)
        \/ read_users_me(w)
        \/ Finish(w)

SpecAuth == Init /\ [][NextAuth]_vars

\* Posts and comments, one request at a time, in a store where both users
\* have registered and logged in (a state SpecAuth reaches: RegisteredAndLoggedIn).
InitCrud ==
    /\ users = <<[email |-> "a@x.com", password_hash |-> get_password_hash("pw1")],
                 [email |-> "b@x.com", password_hash |-> get_password_hash("pw2")]>>
    /\ posts = << >>
    /\ comments = << >>
    /\ now = 0
    /\ issued = {[tok |-> [sub |-> "a@x.com", exp |-> TokenTTL, sig |-> "ok"], uid |-> 1],
                 [tok |-> [sub |-> "b@x.com", exp |-> TokenTTL, sig |-> "ok"], uid |-> 2]}
    /\ session = [w \in Procs |-> "none"]
    /\ pc = [w \in Procs |-> "idle"]
    /\ req = [w \in Procs |-> NoReq]
    /\ resp = [w \in Procs |-> NoResp]

RegisteredAndLoggedIn ==
    /\ users = <<[email |-> "a@x.com", password_hash |-> get_password_hash("pw1")],
                 [email |-> "b@x.com", password_hash |-> get_password_hash("pw2")]>>
    /\ now = 0
    /\ issued = {[tok |-> [sub |-> "a@x.com", exp |-> TokenTTL, sig |-> "ok"], uid |-> 1],
                 [tok |-> [sub |-> "b@x.com", exp |-> TokenTTL, sig |-> "ok"], uid |-> 2]}
    /\ AllIdle

PostRequests ==
    {[NoReq EXCEPT !.kind = "create_post", !.tok = t] : t \in Presentable}
    \cup {[NoReq EXCEPT !.kind = k, !.tok = t, !.id = i] :
            k \in {"update_post", "delete_post", "create_comment"},
            t \in Presentable, i \in 1..(MaxPosts + 1)}

CommentRequests ==
    {[NoReq EXCEPT !.kind = k, !.tok = t, !.id = i] :
        k \in {"update_comment", "delete_comment"},
        t \in Presentable, i \in 1..(MaxComments + 1)}

NextCrud ==
    \E w \in Procs :
        \/ Serial(w) /\ \E r \in LoginRequests \cup PostRequests \cup CommentRequests :
                          Accept(w, r)
        \/ login_for_access_token(w)
        \/ \E b \in PostBodies : create_post(w, b)
        \/ \E b \in PostBodies : update_post(w, b)
        \/ delete_post(w)
        \/ \E b \in CommentBodies : create_comment(w, b)
        \/ \E b \in CommentBodies : update_comment(w, b)
        \/ delete_comment(w)
        \/ Finish(w)

SpecCrud == InitCrud /\ [][NextCrud]_vars

\* ------------------------------------------------- registration (C3, C9)
NoDuplicateEmails ==
    \A i, j \in 1..Len(users) : users[i].email = users[j].email => i = j

EmailTaken(e) == \E i \in 1..Len(users) : users[i].email = e

\* The existence check of a register request: a taken email is refused with
\* DuplicateEmail and nothing is stored; a free one goes on to the commit.
RegisterCheckStep(w) ==
    (pc[w] = "handler" /\ req[w].kind = "register" /\ pc'[w] # "handler") =>
        IF EmailTaken(req[w].email)
        THEN pc'[w] = "exit" /\ resp'[w] = DuplicateEmail /\ users' = users
        ELSE pc'[w] = "commit" /\ users' = users

\* The commit of a register request whose email is still free stores the User.
RegisterCommitStep(w) ==
    (pc[w] = "commit" /\ req[w].kind = "register" /\ pc'[w] = "exit"
        /\ ~EmailTaken(req[w].email)) =>
        /\ resp'[w].status = 200
        /\ Len(users') = Len(users) + 1
        /\ users'[Len(users')].email = req[w].email
        /\ resp'[w].uid = Len(users')

\* C3: registering an email that is already registered is refused with
\* DuplicateEmail (400) and adds no User, registering a free email succeeds and
\* adds exactly that User, and in every reachable state no two Users share an
\* email.
C3_RegisterTwice ==
    /\ []NoDuplicateEmails
    /\ [][\A w \in Procs : RegisterCheckStep(w) /\ RegisterCommitStep(w)]_vars

C3_Witness ==
    \E w \in Procs :
        /\ pc[w] = "exit" /\ req[w].kind = "register"
        /\ resp[w] = DuplicateEmail
        /\ EmailTaken(req[w].email)

\* C9: every register request ends with success or with DuplicateEmail (400),
\* also when two requests for the same free email interleave between the
\* existence check and the commit, and no two Users share an email.
C9_RaceEndsInDuplicateEmail ==
    /\ NoDuplicateEmails
    /\ \A w \in Procs :
          (pc[w] = "exit" /\ req[w].kind = "register") =>
              (resp[w].status = 200 \/ resp[w] = DuplicateEmail)

\* ------------------------------------------------------------- tokens (C4)
IssuedFor(t) == {i.uid : i \in {j \in issued : j.tok = t}}

\* GET /me arriving with a token login issued: resolved at the time it is
\* presented.
PresentStep(w) ==
    (pc[w] = "idle" /\ pc'[w] # "idle" /\ req'[w].kind = "me"
        /\ IssuedFor(req'[w].tok) # {}) =>
        /\ now < req'[w].tok.exp =>
              /\ pc'[w] = "handler"
              /\ IssuedFor(req'[w].tok) = {req'[w].caller}
        /\ now > req'[w].tok.exp =>
              /\ pc'[w] = "exit"
              /\ resp'[w] = Resp(401, "ExpiredToken")

MeStep(w) ==
    (pc[w] = "handler" /\ req[w].kind = "me" /\ pc'[w] # "handler") =>
        /\ pc'[w] = "exit"
        /\ resp'[w].status = 200
        /\ resp'[w].uid = req[w].caller

\* C4: a token login issued for user U, presented to GET /me before its
\* expiry, resolves the caller to U and /me returns U; presented after its
\* expiry it is rejected with 401 ExpiredToken and resolves to no user.
C4_TokenBeforeAndAfterExpiry ==
    [][\A w \in Procs : PresentStep(w) /\ MeStep(w)]_vars

C4_Witness ==
    \E w \in Procs :
        /\ pc[w] = "exit" /\ req[w].kind = "me"
        /\ IssuedFor(req[w].tok) # {}
        /\ resp[w] = Resp(401, "ExpiredToken")

\* -------------------------------------------------------------- login (C5)
CredentialsOk(e, p) ==
    \E i \in 1..Len(users) :
        users[i].email = e /\ verify_password(p, users[i].password_hash)

\* C5: login answers the one InvalidCredentials response (400, same message)
\* when no User has the email and when the password does not verify, issuing
\* nothing; otherwise it issues a token whose subject is that User's email.
C5_LoginUniformFailure ==
    [][\A w \in Procs :
        (pc[w] = "handler" /\ req[w].kind = "login" /\ pc'[w] # "handler") =>
            /\ pc'[w] = "exit"
            /\ IF CredentialsOk(req[w].email, req[w].password)
               THEN /\ resp'[w].status = 200
                    /\ resp'[w].tok.sub = req[w].email
                    /\ resp'[w].tok.sig = "ok"
                    /\ \E i \in issued' :
                          /\ i.tok = resp'[w].tok
                          /\ users[i.uid].email = req[w].email
               ELSE /\ resp'[w] = InvalidCredentials
                    /\ issued' = issued]_vars

C5_Witness ==
    \E w \in Procs :
        /\ pc[w] = "exit" /\ req[w].kind = "login"
        /\ resp[w] = InvalidCredentials
        /\ EmailTaken(req[w].email)

\* ------------------------------------------------ ownership (C1, C2, C6)
Mutating == {"update_post", "delete_post", "update_comment", "delete_comment"}

OnPost(w) == req[w].kind \in {"update_post", "delete_post"}

TargetExists(w) ==
    IF OnPost(w) THEN req[w].id \in DOMAIN posts ELSE req[w].id \in DOMAIN comments

TargetOwner(w) ==
    IF OnPost(w) THEN posts[req[w].id].owner_id ELSE comments[req[w].id].owner_id

\* The handler of worker w answers in this step.
HandlerStep(w) == pc[w] = "handler" /\ pc'[w] = "exit"

\* A PUT or DELETE by an authenticated caller who does not own the target.
NonOwnerStep(w) ==
    /\ HandlerStep(w) /\ req[w].kind \in Mutating
    /\ TargetExists(w) /\ TargetOwner(w) # req[w].caller

\* A JSON body that has every field of the schema, each of its type.
WellFormedPost(b) ==
    b.title \in Titles /\ b.content \in Contents /\ b.owner_id \in UserIds

WellFormedComment(b) == b.body \in Bodies /\ b.owner_id \in UserIds

\* C1 as stated: a PUT or DELETE by a caller who is not the owner is answered
\* 403 whatever the body contains, and the store is left as it was.
C1_NonOwnerAlwaysForbidden ==
    [][\A w \in Procs :
        NonOwnerStep(w) =>
            /\ resp'[w].status = 403
            /\ posts' = posts /\ comments' = comments]_vars

\* C1 amended: a PUT or DELETE by a caller who is not the owner never changes
\* the store; a DELETE, and a PUT whose body passes validation, is answered
\* 403, and a PUT whose body fails validation is answered 422.
C1_NonOwnerNeverMutates ==
    [][\A w \in Procs :
        NonOwnerStep(w) =>
            /\ posts' = posts /\ comments' = comments
            /\ resp'[w].status \in {403, 422}
            /\ req[w].kind \in {"delete_post", "delete_comment"} =>
                  resp'[w].status = 403
            /\ \A b \in PostBodies :
                  update_post(w, b) =>
                      (resp'[w].status = 403 <=> WellFormedPost(b))
            /\ \A b \in CommentBodies :
                  update_comment(w, b) =>
                      (resp'[w].status = 403 <=> WellFormedComment(b))]_vars

C1_Witness ==
    \E w \in Procs :
        /\ pc[w] = "exit" /\ req[w].kind = "update_post"
        /\ resp[w].status = 403
        /\ req[w].id \in DOMAIN posts
        /\ posts[req[w].id].owner_id # req[w].caller
        /\ req[w].claimed = posts[req[w].id].owner_id

\* C2: every stored Post's owner_id is the id of the authenticated caller who
\* created it, whatever owner_id the bodies of create_post and update_post
\* supplied.
C2_OwnerIsCreator ==
    \A id \in DOMAIN posts : posts[id].owner_id = posts[id].creator

C2_Witness ==
    \E w \in Procs :
        /\ pc[w] = "exit" /\ req[w].kind = "update_post"
        /\ resp[w].status = 200
        /\ req[w].claimed \in UserIds \ {req[w].caller}
        /\ posts[req[w].id].owner_id = req[w].caller
        /\ posts[req[w].id].creator = req[w].caller

\* A body that supplies at least one field, each supplied field of its type.
PartialPost(b) == b.title # IllTyped /\ (b.title # Absent \/ b.content # Absent)

PartialComment(b) == b.body \notin {IllTyped, Absent}

\* C6 as stated: the owner's PUT is accepted with any subset of the fields,
\* the supplied fields are overwritten and the others keep their values.
C6_PartialUpdateAccepted ==
    [][\A w \in Procs :
        /\ \A b \in PostBodies :
              (/\ update_post(w, b) /\ PartialPost(b)
               /\ req[w].id \in DOMAIN posts
               /\ posts[req[w].id].owner_id = req[w].caller) =>
                  /\ resp'[w].status = 200
                  /\ posts'[req[w].id].title = Dumped(b.title, posts[req[w].id].title)
                  /\ posts'[req[w].id].content = Dumped(b.content, posts[req[w].id].content)
                  /\ posts'[req[w].id].owner_id = posts[req[w].id].owner_id
        /\ \A b \in CommentBodies :
              (/\ update_comment(w, b) /\ PartialComment(b)
               /\ req[w].id \in DOMAIN comments
               /\ comments[req[w].id].owner_id = req[w].caller) =>
                  /\ resp'[w].status = 200
                  /\ comments'[req[w].id] = [comments[req[w].id] EXCEPT !.body = b.body]]_vars

\* ------------------------------------------------------ order of checks (C7)
StoreUnchanged == posts' = posts /\ comments' = comments /\ users' = users

\* C7: on PUT and DELETE of a post or comment the caller is resolved first
\* (401 at the dependency stage whether or not the id exists, nothing
\* written), then the target is loaded (404 when absent: a DELETE, and a PUT
\* whose body passed validation, of an absent id is answered 404 and never
\* 403), then the owner is compared (403), and the store is written only by a
\* resolved caller who owns an existing target.
C7_ChecksInOrder ==
    [][\A w \in Procs :
        /\ (pc[w] = "idle" /\ pc'[w] # "idle" /\ req'[w].kind \in Mutating
               /\ ~get_current_user(req'[w].tok).ok) =>
              /\ pc'[w] = "exit" /\ resp'[w].status = 401
              /\ StoreUnchanged
        /\ (HandlerStep(w) /\ req[w].kind \in Mutating) =>
              /\ req[w].caller \in 1..Len(users)
              /\ ~TargetExists(w) =>
                    /\ resp'[w].status \in {404, 422}
                    /\ StoreUnchanged
                    /\ req[w].kind \in {"delete_post", "delete_comment"} =>
                          resp'[w].status = 404
                    /\ \A b \in PostBodies :
                          (update_post(w, b) /\ WellFormedPost(b)) =>
                              resp'[w].status = 404
                    /\ \A b \in CommentBodies :
                          (update_comment(w, b) /\ WellFormedComment(b)) =>
                              resp'[w].status = 404
              /\ resp'[w].status = 403 =>
                    /\ TargetExists(w) /\ TargetOwner(w) # req[w].caller
                    /\ StoreUnchanged
              /\ ~StoreUnchanged =>
                    /\ TargetExists(w) /\ TargetOwner(w) = req[w].caller]_vars

C7_Witness ==
    \E w \in Procs :
        /\ pc[w] = "exit" /\ req[w].kind = "update_comment"
        /\ resp[w].status = 404
        /\ req[w].caller # 0
        /\ comments # << >>
        /\ req[w].id \notin DOMAIN comments
        /\ \A c \in DOMAIN comments : comments[c].owner_id # req[w].caller

\* ------------------------------------------------- comments of a post (C8)
CommentsHaveParent ==
    \A c \in DOMAIN comments : comments[c].post_id \in DOMAIN posts

\* C8: every stored Comment's post_id is the id of a stored Post;
\* create_comment on an absent post stores nothing and, its body passing
\* validation, is answered 404; delete_post of a post that has comments
\* removes neither the post nor a comment.
C8_CommentsHaveParent ==
    /\ []CommentsHaveParent
    /\ [][\A w \in Procs :
          /\ (HandlerStep(w) /\ req[w].kind = "create_comment"
                 /\ req[w].id \notin DOMAIN posts) =>
                /\ comments' = comments
                /\ resp'[w].status \in {404, 422}
                /\ \A b \in CommentBodies :
                      (create_comment(w, b) /\ WellFormedComment(b)) =>
                          resp'[w] = Resp(404, "Post not found")
          /\ (HandlerStep(w) /\ req[w].kind = "delete_post"
                 /\ HasComments(req[w].id)) =>
                /\ posts' = posts /\ comments' = comments
                /\ resp'[w].status # 200]_vars

C8_Witness ==
    \E w \in Procs :
        /\ pc[w] = "exit" /\ req[w].kind = "delete_post"
        /\ req[w].id \in DOMAIN posts
        /\ posts[req[w].id].owner_id = req[w].caller
        /\ HasComments(req[w].id)
        /\ resp[w].status = 500

\* ---------------------------------------------------------- sessions (C10)
\* C10: a session is open exactly while its request is being served: the
\* session a request acquired is closed when the request completes, whatever
\* its response, and no worker that has finished holds an open session.
C10_SessionReleased ==
    \A w \in Procs : session[w] = "open" <=> pc[w] # "idle"

C10_Witness ==
    \E w \in Procs :
        /\ pc[w] = "idle" /\ session[w] = "closed"
        /\ posts # << >>

====
